---- MODULE Spec2Model ----
(***************************************************************************)
(* mkbo: an interactive front-matter generator.  The repository holds five *)
(* generations of the same script; each is modelled as a "variant":        *)
(*   ReviewYoutube  src/mkbo.js 1-218            (review loop)             *)
(*   ReviewCredit   src/mkbo.js 220-494          (review loop, credits)    *)
(*   ReviewVideo    src/unnamed/part_000 1-198   (review loop)             *)
(*   MultiType      src/unnamed/part_000 200-409 (entry types, editor)     *)
(*   Basic          src/unnamed/part_000 411-514 (no review, no skipping)  *)
(*                                                                         *)
(* A JavaScript string is a sequence of one-character strings.  Text that  *)
(* a template literal contributes verbatim is kept as one multi-character  *)
(* chunk, so a line of the output is the sequence of chunks whose          *)
(* concatenation is the line, and the output is the sequence of its lines. *)
(***************************************************************************)
EXTENDS Integers, Sequences, FiniteSets, TLC

VARIABLES variant, pc, q, answers, old, yamlContent, slugifiedTitle,
          displayed, accept, rejects, allDefault, message, files, dirs, editor

vars == <<variant, pc, q, answers, old, yamlContent, slugifiedTitle,
          displayed, accept, rejects, allDefault, message, files, dirs, editor>>

----------------------------------------------------------------------------
(* Bounds *)

\* how many times the user may reject the displayed text in one run
MaxRejects == 1

----------------------------------------------------------------------------
(* The variants *)

ReviewYoutube == "ReviewYoutube"
ReviewCredit == "ReviewCredit"
ReviewVideo == "ReviewVideo"
MultiType == "MultiType"
Basic == "Basic"

Variants == {ReviewYoutube, ReviewCredit, ReviewVideo, MultiType, Basic}

\* the variants that define confirmOrEditYaml
ReviewVariants == {ReviewYoutube, ReviewCredit, ReviewVideo}

\* the variants that ask creditPerson / creditLink
CreditVariants == {ReviewCredit, MultiType}

----------------------------------------------------------------------------
(* Characters and strings *)

LowerSeq == <<"a","b","c","d","e","f","g","h","i","j","k","l","m",
              "n","o","p","q","r","s","t","u","v","w","x","y","z">>
UpperSeq == <<"A","B","C","D","E","F","G","H","I","J","K","L","M",
              "N","O","P","Q","R","S","T","U","V","W","X","Y","Z">>

Range(s) == {s[i] : i \in DOMAIN s}

Lowers == Range(LowerSeq)
Uppers == Range(UpperSeq)
Alpha == Lowers \cup Uppers
Digits == {"0","1","2","3","4","5","6","7","8","9"}
AlNum == Alpha \cup Digits

\* what String.prototype.trim and the regular expression class \s remove
WhiteSpace == {" ", "\t"}

\* String.prototype.toLowerCase on one character
LowerChar(c) == IF c \in Uppers
                THEN LowerSeq[CHOOSE i \in DOMAIN UpperSeq : UpperSeq[i] = c]
                ELSE c

ToLowerCase(s) == [i \in DOMAIN s |-> LowerChar(s[i])]

RECURSIVE TrimStart(_)
TrimStart(s) == IF s # <<>> /\ Head(s) \in WhiteSpace THEN TrimStart(Tail(s)) ELSE s

RECURSIVE TrimEnd(_)
TrimEnd(s) == IF s # <<>> /\ s[Len(s)] \in WhiteSpace
              THEN TrimEnd(SubSeq(s, 1, Len(s) - 1)) ELSE s

\* String.prototype.trim
Trim(s) == TrimEnd(TrimStart(s))

\* String.prototype.split(","): the pieces between the commas, in order
RECURSIVE Split(_)
Split(s) ==
    IF \A i \in DOMAIN s : s[i] # ","
    THEN <<s>>
    ELSE LET k == CHOOSE i \in DOMAIN s : s[i] = "," /\ \A j \in 1..(i - 1) : s[j] # ","
         IN  <<SubSeq(s, 1, k - 1)>> \o Split(SubSeq(s, k + 1, Len(s)))

RECURSIVE Flatten(_)
Flatten(ss) == IF ss = <<>> THEN <<>> ELSE Head(ss) \o Flatten(Tail(ss))

----------------------------------------------------------------------------
(* slugify(string, {lower: true}), the npm package the scripts import *)

\* the entries of the package's charmap for the characters used here
SlugCharMap(c) ==
    CASE c = "&" -> <<"a","n","d">>
      [] c = "%" -> <<"p","e","r","c","e","n","t">>
      [] c = "$" -> <<"d","o","l","l","a","r">>
      [] c = "<" -> <<"l","e","s","s">>
      [] c = ">" -> <<"g","r","e","a","t","e","r">>
      [] c = "|" -> <<"o","r">>
      [] OTHER -> <<c>>

\* the characters the default remove pattern /[^\w\s$*_+~.()'"!\-:@]+/g keeps
SlugKeep == AlNum \cup WhiteSpace \cup
            {"_", "$", "*", "+", "~", ".", "(", ")", "'", "\"", "!", "-", ":", "@"}

\* one step of the reduce: map the character, turn the replacement character
\* into a space, drop what the remove pattern matches
SlugAppend(c) ==
    LET mapped == SlugCharMap(c)
        app == IF mapped = <<"-">> THEN <<" ">> ELSE mapped
    IN  SelectSeq(app, LAMBDA x : x \in SlugKeep)

\* slug.replace(/\s+/g, "-")
RECURSIVE ReplaceSpaceRuns(_)
ReplaceSpaceRuns(s) ==
    IF s = <<>> THEN <<>>
    ELSE IF Head(s) \in WhiteSpace
         THEN <<"-">> \o ReplaceSpaceRuns(TrimStart(s))
         ELSE <<Head(s)>> \o ReplaceSpaceRuns(Tail(s))

slugify(title) ==
    ToLowerCase(ReplaceSpaceRuns(Trim(Flatten([i \in DOMAIN title |-> SlugAppend(title[i])]))))

----------------------------------------------------------------------------
(* The credit-link validator: urlPattern.test(input), flag "i" *)

AllIn(s, set) == \A i \in DOMAIN s : s[i] \in set

From(s, i) == SubSeq(s, i + 1, Len(s))
Between(s, i, j) == SubSeq(s, i + 1, j)

\* [a-z\d]([a-z\d-]*[a-z\d])*
UrlLabel(w) ==
    /\ w # <<>>
    /\ w[1] \in AlNum
    /\ w[Len(w)] \in AlNum
    /\ AllIn(w, AlNum \cup {"-"})

\* one repetition of ([a-z\d]([a-z\d-]*[a-z\d])*)\.?
UrlLabelDot(w) ==
    \/ UrlLabel(w)
    \/ (Len(w) >= 2 /\ w[Len(w)] = "." /\ UrlLabel(SubSeq(w, 1, Len(w) - 1)))

\* (([a-z\d]([a-z\d-]*[a-z\d])*)\.?)+
RECURSIVE UrlLabels(_)
UrlLabels(u) ==
    \E m \in 1..Len(u) :
        /\ UrlLabelDot(SubSeq(u, 1, m))
        /\ (m = Len(u) \/ UrlLabels(From(u, m)))

\* (([a-z\d]([a-z\d-]*[a-z\d])*)\.?)+[a-z]{2,}
UrlDomain(t) ==
    \E k \in 1..(Len(t) - 2) :
        /\ UrlLabels(SubSeq(t, 1, k))
        /\ AllIn(From(t, k), Alpha)

\* \d{1,3}
UrlOctet(w) == Len(w) \in 1..3 /\ AllIn(w, Digits)

\* (\d{1,3}\.){3}\d{1,3}
UrlIPv4(t) ==
    \E a, b, c \in 1..Len(t) :
        /\ a < b /\ b < c /\ c < Len(t)
        /\ t[a] = "." /\ t[b] = "." /\ t[c] = "."
        /\ UrlOctet(SubSeq(t, 1, a - 1))
        /\ UrlOctet(Between(t, a, b - 1))
        /\ UrlOctet(Between(t, b, c - 1))
        /\ UrlOctet(From(t, c))

UrlHost(t) == UrlDomain(t) \/ UrlIPv4(t)

\* https?:\/\/
UrlProtocol(t) ==
    LET l == ToLowerCase(t)
    IN  \/ l = <<"h","t","t","p",":","/","/">>
        \/ l = <<"h","t","t","p","s",":","/","/">>

\* \:\d+
UrlPort(t) == Len(t) >= 2 /\ t[1] = ":" /\ AllIn(Tail(t), Digits)

UrlPathChars == AlNum \cup {"-", "%", "_", ".", "~", "+"}

\* (\/[-a-z\d%_.~+]*)*
UrlPath(t) == IF t = <<>> THEN TRUE ELSE t[1] = "/" /\ AllIn(t, UrlPathChars \cup {"/"})

\* \?[;&a-z\d%_.~+=-]*
UrlQuery(t) ==
    /\ t # <<>> /\ t[1] = "?"
    /\ AllIn(Tail(t), AlNum \cup {";", "&", "%", "_", ".", "~", "+", "=", "-"})

\* \#[-a-z\d_]*
UrlFragment(t) ==
    /\ t # <<>> /\ t[1] = "#"
    /\ AllIn(Tail(t), AlNum \cup {"-", "_"})

\* the whole pattern, anchored at both ends: the input is cut into protocol,
\* host, port, path, query and fragment, of which only the host is required
UrlPattern(s) ==
    LET n == Len(s)
    IN  \E i1 \in 0..n :
          /\ (i1 = 0 \/ UrlProtocol(SubSeq(s, 1, i1)))
          /\ \E i2 \in (i1 + 1)..n :
               /\ UrlHost(Between(s, i1, i2))
               /\ \E i3 \in i2..n :
                    /\ (i3 = i2 \/ UrlPort(Between(s, i2, i3)))
                    /\ \E i4 \in i3..n :
                         /\ UrlPath(Between(s, i3, i4))
                         /\ \E i5 \in i4..n :
                              /\ (i5 = i4 \/ UrlQuery(Between(s, i4, i5)))
                              /\ (i5 = n \/ UrlFragment(Between(s, i5, n)))

----------------------------------------------------------------------------
(* The prompt sequence: inquirer.prompt(questions)                         *)
(* An answers object is a function from the names of the questions that    *)
(* were asked to their answers; a skipped question leaves its name out.    *)

NoAnswers == <<>>

Has(a, name) == name \in DOMAIN a

\* const today = format(new Date(), "yyyy-MM-dd")
today == <<"2025-02-07">>

\* the name of the video flag in each variant
VideoField(v) == IF v \in {ReviewVideo, Basic} THEN "pageHasVideo" ELSE "pageHasYoutube"

\* the questions of promptUser, in declaration order; the review loop of a
\* review variant declares the same names in the same order
Questions(v) ==
    CASE v = ReviewYoutube ->
            <<"title", "date", "tags", "description", "pageHasCode", "snow",
              "pageHasYoutube", "imageSource", "imageAlt">>
      [] v = ReviewCredit ->
            <<"title", "date", "tags", "description", "pageHasCode", "snow",
              "pageHasYoutube", "imageSource", "imageAlt", "creditPerson", "creditLink">>
      [] v = ReviewVideo ->
            <<"title", "date", "tags", "description", "pageHasCode", "snow",
              "pageHasVideo", "imageSource", "imageAlt">>
      [] v = MultiType ->
            <<"entryType", "title", "date", "tags", "description", "pageHasCode", "snow",
              "pageHasYoutube", "hasImage", "imageSource", "imageAlt", "creditPerson",
              "creditLink">>
      [] v = Basic ->
            <<"title", "date", "tags", "description", "pageHasCode", "snow",
              "pageHasVideo", "imageSource", "imageAlt">>

\* type: "list" | "confirm" | "input"
QuestionType(name) ==
    CASE name = "entryType" -> "list"
      [] name \in {"pageHasCode", "snow", "pageHasYoutube", "pageHasVideo", "hasImage"} -> "confirm"
      [] OTHER -> "input"

\* choices: ["Post", "Note", "TIL"]
EntryTypes == {"Post", "Note", "TIL"}

\* answers.<name>.trim() !== "", which throws a TypeError when <name> was skipped
NotBlank(a, name) ==
    IF ~Has(a, name) THEN "TypeError"
    ELSE IF Trim(a[name]) # <<>> THEN "ask" ELSE "skip"

\* the when predicate of a question on the answers so far:
\* "ask", "skip", or "TypeError" when evaluating it throws
When(v, name, a) ==
    CASE v = MultiType /\ name = "imageSource" ->
            IF a["hasImage"] THEN "ask" ELSE "skip"
      [] v = MultiType /\ name \in {"imageAlt", "creditPerson"} ->
            IF a["hasImage"] THEN NotBlank(a, "imageSource") ELSE "skip"
      [] v = MultiType /\ name = "creditLink" ->
            IF a["hasImage"] THEN NotBlank(a, "creditPerson") ELSE "skip"
      [] v \in ReviewVariants /\ name \in {"imageAlt", "creditPerson"} ->
            NotBlank(a, "imageSource")
      [] v \in ReviewVariants /\ name = "creditLink" ->
            NotBlank(a, "creditPerson")
      [] OTHER -> "ask"

\* the default of a question of promptUser: <<>> when it has none, else <<value>>
PromptDefault(name, a) ==
    CASE name = "date" -> <<today>>
      [] name \in {"pageHasCode", "snow", "pageHasYoutube", "pageHasVideo", "hasImage"} -> <<FALSE>>
      [] name = "imageSource" -> <<slugify(a["title"]) \o <<".", "j", "p", "g">> >>
      [] OTHER -> <<>>

\* the default of a question of the review loop, read from the answers the
\* user rejected (prev); a default that is undefined counts as none
ReviewDefault(name, prev) ==
    CASE name \in {"creditPerson", "creditLink"} -> <<>>
      [] Has(prev, name) -> <<prev[name]>>
      [] OTHER -> <<>>

\* the questions without their validate functions
ValidateAcceptsAll(v, name, value) == TRUE

\* validate: TRUE when the answer is accepted
Validate(v, name, value) ==
    CASE name = "creditLink" -> UrlPattern(value)
      [] v = MultiType /\ name = "imageAlt" -> Trim(value) # <<>>
      [] OTHER -> TRUE

\* the message a failing validator returns
ValidateMessage(name) ==
    IF name = "creditLink" THEN "Please enter a valid URL"
    ELSE "Alt text is required if an image source is provided"

\* an input prompt: an empty line takes the default, or "" without one
InputValue(line, default) ==
    IF line = <<>> THEN (IF default = <<>> THEN <<>> ELSE default[1]) ELSE line

\* a confirm prompt: an empty line takes the default (true without one),
\* anything else is a yes when it starts with y
ConfirmValue(line, default) ==
    IF line = <<>> THEN (IF default = <<>> THEN TRUE ELSE default[1])
    ELSE LowerChar(line[1]) = "y"

\* the answer a question records for what the user typed or chose
AnswerValue(name, line, default) ==
    CASE QuestionType(name) = "list" -> line
      [] QuestionType(name) = "confirm" -> ConfirmValue(line, default)
      [] OTHER -> InputValue(line, default)

----------------------------------------------------------------------------
(* generateYamlContent(answers) *)

\* ${answers.<name>} inside a template literal
Interpolate(a, name) ==
    IF ~Has(a, name) THEN <<"undefined">>
    ELSE IF QuestionType(name) = "confirm"
         THEN (IF a[name] THEN <<"true">> ELSE <<"false">>)
    ELSE a[name]

\* one line of the text: verbatim template text followed by an interpolation
Line(literal, value) == <<literal>> \o value

\* tagsArray without the map over trim
tagsArrayNoTrim(a) ==
    IF Has(a, "tags") /\ a["tags"] # <<>> THEN Split(a["tags"]) ELSE <<>>

\* answers.tags ? answers.tags.split(",").map((tag) => tag.trim()) : []
tagsArray(a) ==
    IF Has(a, "tags") /\ a["tags"] # <<>>
    THEN LET pieces == Split(a["tags"])
         IN  [i \in DOMAIN pieces |-> Trim(pieces[i])]
    ELSE <<>>

\* the escapes JSON.stringify applies inside a string
JsonEscape(s) ==
    [i \in DOMAIN s |-> CASE s[i] = "\"" -> "\\\""
                          [] s[i] = "\\" -> "\\\\"
                          [] s[i] = "\t" -> "\\t"
                          [] OTHER -> s[i]]

\* the lines of JSON.stringify(array, null, 2)
JsonStringify(array) ==
    IF array = <<>> THEN << <<"[]">> >>
    ELSE << <<"[">> >>
         \o [i \in DOMAIN array |->
                <<"  ", "\"">> \o JsonEscape(array[i]) \o <<"\"">>
                \o (IF i < Len(array) THEN <<",">> ELSE <<>>)]
         \o << <<"]">> >>

\* the opening delimiter and the four required fields
RequiredLines(a) ==
    LET json == JsonStringify(tagsArray(a))
    IN  << <<"---">>,
           Line("title: ", Interpolate(a, "title")),
           Line("description: ", Interpolate(a, "description")),
           Line("date: ", Interpolate(a, "date")),
           <<"tags: ">> \o Head(json) >>
        \o Tail(json)

\* the text each variant writes in front of the video flag's value
VideoLiteral(v) ==
    CASE v = ReviewYoutube -> "pageHapageHasYoutubesVideo: "
      [] v \in {ReviewCredit, MultiType} -> "pageHasYoutube: "
      [] OTHER -> "pageHasVideo: "

\* a flag that was not asked is undefined, which an if takes as false
Truthy(a, name) == Has(a, name) /\ a[name]

\* the flag lines with the snow flag appended ahead of the video flag
FlagLinesSnowFirst(v, a) ==
    (IF Truthy(a, "pageHasCode")
     THEN << Line("pageHasCode: ", Interpolate(a, "pageHasCode")) >> ELSE <<>>)
    \o (IF Truthy(a, "snow")
        THEN << Line("snow: ", Interpolate(a, "snow")) >> ELSE <<>>)
    \o (IF Truthy(a, VideoField(v))
        THEN << Line(VideoLiteral(v), Interpolate(a, VideoField(v))) >> ELSE <<>>)

FlagLines(v, a) ==
    (IF Truthy(a, "pageHasCode")
     THEN << Line("pageHasCode: ", Interpolate(a, "pageHasCode")) >> ELSE <<>>)
    \o (IF Truthy(a, VideoField(v))
        THEN << Line(VideoLiteral(v), Interpolate(a, VideoField(v))) >> ELSE <<>>)
    \o (IF Truthy(a, "snow")
        THEN << Line("snow: ", Interpolate(a, "snow")) >> ELSE <<>>)

\* ${answers.imageAlt || ""} in the review variants, ${answers.imageAlt} elsewhere
AltValue(v, a) ==
    IF v \in ReviewVariants
    THEN (IF Has(a, "imageAlt") THEN a["imageAlt"] ELSE <<>>)
    ELSE Interpolate(a, "imageAlt")

CreditLines(a) ==
    IF Trim(a["creditPerson"]) # <<>>
    THEN << Line("  creditPerson: ", Interpolate(a, "creditPerson")),
            Line("  creditLink: ", Interpolate(a, "creditLink")) >>
    ELSE <<>>

\* the image gate comparing the source with "" without trimming it
ImageGateNoTrim(v, a) ==
    CASE v = Basic -> TRUE
      [] v = MultiType -> Truthy(a, "hasImage") /\ a["imageSource"] # <<>>
      [] OTHER -> a["imageSource"] # <<>>

\* the condition under which a variant emits the image block
ImageGate(v, a) ==
    CASE v = Basic -> TRUE
      [] v = MultiType -> Truthy(a, "hasImage") /\ Trim(a["imageSource"]) # <<>>
      [] OTHER -> Trim(a["imageSource"]) # <<>>

ImageLines(v, a) ==
    IF ImageGate(v, a)
    THEN << <<"image:">>,
            Line("  source: ", Interpolate(a, "imageSource")),
            Line("  alt: ", AltValue(v, a)) >>
         \o (IF v \in CreditVariants THEN CreditLines(a) ELSE <<>>)
    ELSE <<>>

\* what follows the optional lines
ClosingLines(v) ==
    IF v = MultiType THEN << <<"draft: true">>, <<"---">> >> ELSE << <<"---">> >>

\* a .trim() on a field that was skipped throws a TypeError
GenerateThrows(v, a) ==
    \/ ~Has(a, "title")
    \/ v \in ReviewVariants /\ ~Has(a, "imageSource")
    \/ v = MultiType /\ Truthy(a, "hasImage") /\ ~Has(a, "imageSource")
    \/ v \in CreditVariants /\ ~Has(a, "creditPerson")
         /\ (v = MultiType => Truthy(a, "hasImage"))
         /\ Has(a, "imageSource") /\ Trim(a["imageSource"]) # <<>>

\* generateYamlContent appending the draft line ahead of the image block
generateDraftBeforeImage(v, a) ==
    [ yamlContent |-> RequiredLines(a) \o FlagLines(v, a)
                      \o (IF v = MultiType THEN << <<"draft: true">> >> ELSE <<>>)
                      \o ImageLines(v, a) \o << <<"---">> >>,
      slugifiedTitle |-> slugify(a["title"]) ]

generateYamlContent(v, a) ==
    [ yamlContent |-> RequiredLines(a) \o FlagLines(v, a) \o ImageLines(v, a)
                      \o ClosingLines(v),
      slugifiedTitle |-> slugify(a["title"]) ]

----------------------------------------------------------------------------
(* What the user may type at each question *)

TitleInputs == {<<>>, <<"A", " ", "b">>}
DateInputs == {<<>>, <<"2024-12-31">>}
TagsInputs == {<<>>, <<"x", ",", " ", "y">>}
DescriptionInputs == {<<>>}
ConfirmInputs == {<<>>, <<"y">>, <<"n">>}
SnowInputs == {<<>>}
VideoInputs == {<<>>}
ImageSourceInputs == {<<>>, <<" ">>, <<"i">>}
ImageAltInputs == {<<>>, <<"t">>}
CreditPersonInputs == {<<>>, <<"J">>}
CreditLinkInputs == {<<>>, <<"x", " ", "y">>, <<"a", ".", "i", "o">>}

InputsFor(name) ==
    CASE name = "title" -> TitleInputs
      [] name = "date" -> DateInputs
      [] name = "tags" -> TagsInputs
      [] name = "description" -> DescriptionInputs
      [] name = "imageSource" -> ImageSourceInputs
      [] name = "imageAlt" -> ImageAltInputs
      [] name = "creditPerson" -> CreditPersonInputs
      [] name = "creditLink" -> CreditLinkInputs
      [] name = "snow" -> SnowInputs
      [] name \in {"pageHasYoutube", "pageHasVideo"} -> VideoInputs
      [] OTHER -> ConfirmInputs

----------------------------------------------------------------------------
(* The file system *)

\* const BASE_DIR
BASE_DIR == "/Users/Bob/Dropbox/Docs/Sites/bobmonsour.com/src/"

\* entryTypeToDir
entryTypeToDir(entryType) ==
    CASE entryType = "Post" -> "posts"
      [] entryType = "Note" -> "notes"
      [] entryType = "TIL" -> "til"

\* `${BASE_DIR}${entryTypeToDir[answers.entryType]}/`; the other variants
\* write into the current directory
targetDir(v, a) ==
    IF v = MultiType THEN <<BASE_DIR, entryTypeToDir(a["entryType"]), "/">> ELSE <<>>

TargetDirs == {<<BASE_DIR, entryTypeToDir(e), "/">> : e \in EntryTypes}

\* `${targetDir}${slugifiedTitle}.md`
filePath(dir, slug) == dir \o slug \o <<".md">>

----------------------------------------------------------------------------
(* The run of one script *)

Init ==
    /\ variant \in Variants
    /\ pc = "promptUser"
    /\ q = 1
    /\ answers = NoAnswers
    /\ old = NoAnswers
    /\ yamlContent = <<>>
    /\ slugifiedTitle = <<>>
    /\ displayed = <<>>
    /\ accept = FALSE
    /\ rejects = 0
    /\ allDefault = FALSE
    /\ message = ""
    /\ files = {}
    /\ dirs \in (IF variant = MultiType THEN SUBSET TargetDirs ELSE {{}})
    /\ editor = "none"

\* a question of promptUser or of the review loop is pending
Asking == pc \in {"promptUser", "reprompt"} /\ q <= Len(Questions(variant))

CurrentName == Questions(variant)[q]

CurrentDefault ==
    IF pc = "promptUser" THEN PromptDefault(CurrentName, answers)
    ELSE ReviewDefault(CurrentName, old)

\* when returns false: the question is skipped and its name stays absent
SkipQuestion ==
    /\ Asking
    /\ When(variant, CurrentName, answers) = "skip"
    /\ q' = q + 1
    /\ UNCHANGED <<variant, pc, answers, old, yamlContent, slugifiedTitle, displayed,
                   accept, rejects, allDefault, message, files, dirs, editor>>

\* when throws: the prompt's promise rejects, nothing catches it, the run ends
WhenThrows ==
    /\ Asking
    /\ When(variant, CurrentName, answers) = "TypeError"
    /\ pc' = "crashed"
    /\ UNCHANGED <<variant, q, answers, old, yamlContent, slugifiedTitle, displayed,
                   accept, rejects, allDefault, message, files, dirs, editor>>

\* the list question: the user picks one of the choices
ChooseEntryType ==
    /\ Asking
    /\ QuestionType(CurrentName) = "list"
    /\ When(variant, CurrentName, answers) = "ask"
    /\ \E choice \in EntryTypes :
          answers' = answers @@ (CurrentName :> AnswerValue(CurrentName, choice, <<>>))
    /\ q' = q + 1
    /\ UNCHANGED <<variant, pc, old, yamlContent, slugifiedTitle, displayed,
                   accept, rejects, allDefault, message, files, dirs, editor>>

\* a confirm or input question whose answer passes its validator
AnswerQuestion ==
    /\ Asking
    /\ QuestionType(CurrentName) # "list"
    /\ When(variant, CurrentName, answers) = "ask"
    /\ \E line \in InputsFor(CurrentName) :
          LET value == AnswerValue(CurrentName, line, CurrentDefault)
          IN  /\ Validate(variant, CurrentName, value) = TRUE
              /\ answers' = answers @@ (CurrentName :> value)
              /\ allDefault' = (allDefault /\ line = <<>>)
    /\ q' = q + 1
    /\ message' = ""
    /\ UNCHANGED <<variant, pc, old, yamlContent, slugifiedTitle, displayed,
                   accept, rejects, files, dirs, editor>>

\* an answer its validator rejects: the message is shown, the same question stays
RejectAnswer ==
    /\ Asking
    /\ QuestionType(CurrentName) # "list"
    /\ When(variant, CurrentName, answers) = "ask"
    /\ \E line \in InputsFor(CurrentName) :
          /\ Validate(variant, CurrentName, AnswerValue(CurrentName, line, CurrentDefault)) = FALSE
          /\ allDefault' = (allDefault /\ line = <<>>)
    /\ message' = ValidateMessage(CurrentName)
    /\ UNCHANGED <<variant, pc, q, answers, old, yamlContent, slugifiedTitle, displayed,
                   accept, rejects, files, dirs, editor>>

\* main going from generateYamlContent straight to the write, without
\* calling confirmOrEditYaml
GenerateSkipsReview ==
    /\ pc = "promptUser"
    /\ q > Len(Questions(variant))
    /\ IF GenerateThrows(variant, answers) = TRUE
       THEN /\ pc' = "crashed"
            /\ UNCHANGED <<yamlContent, slugifiedTitle>>
       ELSE /\ yamlContent' = generateYamlContent(variant, answers).yamlContent
            /\ slugifiedTitle' = generateYamlContent(variant, answers).slugifiedTitle
            /\ pc' = IF variant = MultiType THEN "ensureDir" ELSE "write"
    /\ UNCHANGED <<variant, q, answers, old, displayed, accept, rejects, allDefault,
                   message, files, dirs, editor>>

\* main: let { yamlContent, slugifiedTitle } = generateYamlContent(answers)
Generate ==
    /\ pc = "promptUser"
    /\ q > Len(Questions(variant))
    /\ IF GenerateThrows(variant, answers) = TRUE
       THEN /\ pc' = "crashed"
            /\ UNCHANGED <<yamlContent, slugifiedTitle>>
       ELSE /\ yamlContent' = generateYamlContent(variant, answers).yamlContent
            /\ slugifiedTitle' = generateYamlContent(variant, answers).slugifiedTitle
            /\ pc' = CASE variant \in ReviewVariants -> "display"
                       [] variant = MultiType -> "ensureDir"
                       [] OTHER -> "write"
    /\ UNCHANGED <<variant, q, answers, old, displayed, accept, rejects, allDefault,
                   message, files, dirs, editor>>

\* confirmOrEditYaml: console.log(yamlContent), then the accept question
Display ==
    /\ pc = "display"
    /\ displayed' = yamlContent
    /\ pc' = "confirm"
    /\ UNCHANGED <<variant, q, answers, old, yamlContent, slugifiedTitle, accept,
                   rejects, allDefault, message, files, dirs, editor>>

\* the user accepts: the loop ends and confirmOrEditYaml returns answers
Accept ==
    /\ pc = "confirm"
    /\ accept' = TRUE
    /\ pc' = "write"
    /\ UNCHANGED <<variant, q, answers, old, yamlContent, slugifiedTitle, displayed,
                   rejects, allDefault, message, files, dirs, editor>>

\* the user rejects: every question is asked again, answers is reassigned
Reject ==
    /\ pc = "confirm"
    /\ rejects < MaxRejects
    /\ accept' = FALSE
    /\ rejects' = rejects + 1
    /\ old' = answers
    /\ answers' = NoAnswers
    /\ q' = 1
    /\ allDefault' = TRUE
    /\ pc' = "reprompt"
    /\ UNCHANGED <<variant, yamlContent, slugifiedTitle, displayed, message, files,
                   dirs, editor>>

\* the loop assembling again from the answers it was called with, not from
\* the answers of the new pass
RegenerateFromOld ==
    /\ pc = "reprompt"
    /\ q > Len(Questions(variant))
    /\ IF GenerateThrows(variant, answers) = TRUE
       THEN /\ pc' = "crashed"
            /\ UNCHANGED yamlContent
       ELSE /\ yamlContent' = generateYamlContent(variant, old).yamlContent
            /\ pc' = "display"
    /\ UNCHANGED <<variant, q, answers, old, slugifiedTitle, displayed, accept, rejects,
                   allDefault, message, files, dirs, editor>>

\* confirmOrEditYaml: yamlContent = generateYamlContent(answers).yamlContent
Regenerate ==
    /\ pc = "reprompt"
    /\ q > Len(Questions(variant))
    /\ IF GenerateThrows(variant, answers) = TRUE
       THEN /\ pc' = "crashed"
            /\ UNCHANGED yamlContent
       ELSE /\ yamlContent' = generateYamlContent(variant, answers).yamlContent
            /\ pc' = "display"
    /\ UNCHANGED <<variant, q, answers, old, slugifiedTitle, displayed, accept, rejects,
                   allDefault, message, files, dirs, editor>>

\* main of the multi-type variant: if (!fs.existsSync(targetDir)) fs.mkdirSync(...)
EnsureDir ==
    /\ pc = "ensureDir"
    /\ dirs' = dirs \cup {targetDir(variant, answers)}
    /\ pc' = "write"
    /\ UNCHANGED <<variant, q, answers, old, yamlContent, slugifiedTitle, displayed,
                   accept, rejects, allDefault, message, files, editor>>

\* main writing with the slug and text of its first generateYamlContent call,
\* without assembling again from the answers the review loop returned
WriteFileStaleSlug ==
    /\ pc = "write"
    /\ LET dir == targetDir(variant, answers)
       IN  /\ IF dir # <<>> /\ dir \notin dirs
              THEN /\ pc' = "crashed"
                   /\ UNCHANGED files
              ELSE /\ files' = files \cup {[path |-> filePath(dir, slugifiedTitle),
                                            text |-> yamlContent]}
                   /\ pc' = IF variant = MultiType THEN "exec" ELSE "done"
    /\ UNCHANGED <<variant, q, answers, old, yamlContent, slugifiedTitle, displayed,
                   accept, rejects, allDefault, message, dirs, editor>>

\* main: the review variants assemble once more from the answers the loop
\* returned; then fs.writeFileSync(path, yamlContent, "utf8")
WriteFile ==
    /\ pc = "write"
    /\ LET result == IF variant \in ReviewVariants
                     THEN generateYamlContent(variant, answers)
                     ELSE [yamlContent |-> yamlContent, slugifiedTitle |-> slugifiedTitle]
           dir == targetDir(variant, answers)
       IN  /\ yamlContent' = result.yamlContent
           /\ slugifiedTitle' = result.slugifiedTitle
           /\ IF dir # <<>> /\ dir \notin dirs
              THEN /\ pc' = "crashed"
                   /\ UNCHANGED files
              ELSE /\ files' = files \cup {[path |-> filePath(dir, result.slugifiedTitle),
                                            text |-> result.yamlContent]}
                   /\ pc' = IF variant = MultiType THEN "exec" ELSE "done"
    /\ UNCHANGED <<variant, q, answers, old, displayed, accept, rejects, allDefault,
                   message, dirs, editor>>

\* exec(`code "${filePath}"`, callback): the callback runs without an error
EditorOpened ==
    /\ pc = "exec"
    /\ editor' = "opened"
    /\ pc' = "done"
    /\ UNCHANGED <<variant, q, answers, old, yamlContent, slugifiedTitle, displayed,
                   accept, rejects, allDefault, message, files, dirs>>

\* the exec callback throwing the error instead of logging it
EditorFailedThrows ==
    /\ pc = "exec"
    /\ editor' = "failed"
    /\ pc' = "crashed"
    /\ UNCHANGED <<variant, q, answers, old, yamlContent, slugifiedTitle, displayed,
                   accept, rejects, allDefault, message, files, dirs>>

\* the callback runs with an error, which it logs with console.error
EditorFailed ==
    /\ pc = "exec"
    /\ editor' = "failed"
    /\ message' = "Failed to open file in VS Code"
    /\ pc' = "done"
    /\ UNCHANGED <<variant, q, answers, old, yamlContent, slugifiedTitle, displayed,
                   accept, rejects, allDefault, files, dirs>>

Next ==
    \/ SkipQuestion
    \/ WhenThrows
    \/ ChooseEntryType
    \/ AnswerQuestion
    \/ RejectAnswer
    \/ Generate
    \/ Display
    \/ Accept
    \/ Reject
    \/ Regenerate
    \/ EnsureDir
    \/ WriteFile
    \/ EditorOpened
    \/ EditorFailed

Spec == Init /\ [][Next]_vars

----------------------------------------------------------------------------
(* The assembler on its own: every EntryAnswers promptUser can hand to it  *)

YesNo == {<<"y">>, <<"n">>}

GenTitles == {<<>>, <<"A", " ", "b">>}
GenTags == {<<>>, <<" ">>, <<"x">>, <<"x", ",", " ", "y">>, <<",", "\"", " ">>}
GenImageSources == {<<>>, <<" ">>, <<"i">>}
GenImageAlts == {<<>>, <<" ">>, <<"t">>}
GenCreditPersons == {<<>>, <<" ">>, <<"J">>}
GenCreditLinks == {<<>>, <<"x", " ", "y">>, <<"a", ".", "i", "o">>}

\* what the user types at every question of one pass through promptUser
GenInputs(v) ==
    [ entryType : IF v = MultiType THEN EntryTypes ELSE {"Post"},
      title : GenTitles,
      date : {<<>>},
      tags : GenTags,
      description : {<<"d">>},
      pageHasCode : YesNo,
      snow : YesNo,
      video : YesNo,
      hasImage : IF v = MultiType THEN YesNo ELSE {<<>>},
      imageSource : GenImageSources,
      imageAlt : GenImageAlts,
      creditPerson : IF v \in CreditVariants THEN GenCreditPersons ELSE {<<>>},
      creditLink : IF v \in CreditVariants THEN GenCreditLinks ELSE {<<>>} ]

InputOf(in, name) ==
    IF name \in {"pageHasYoutube", "pageHasVideo"} THEN in["video"] ELSE in[name]

\* inquirer.prompt(questions) from question i on: the answers, and whether the
\* pass ran to its end with every typed answer taken
RECURSIVE RunQuestions(_, _, _, _)
RunQuestions(v, in, a, i) ==
    IF i > Len(Questions(v)) THEN [ok |-> TRUE, answers |-> a]
    ELSE LET name == Questions(v)[i]
             w == When(v, name, a)
             value == AnswerValue(name, InputOf(in, name), PromptDefault(name, a))
         IN  IF w = "TypeError" THEN [ok |-> FALSE, answers |-> a]
             ELSE IF w = "skip" THEN RunQuestions(v, in, a, i + 1)
             ELSE IF Validate(v, name, value)
                  THEN RunQuestions(v, in, a @@ (name :> value), i + 1)
                  ELSE [ok |-> FALSE, answers |-> a]

\* promptUser has returned; main is about to call generateYamlContent
InitGen ==
    /\ variant \in Variants
    /\ pc = "promptUser"
    /\ q = Len(Questions(variant)) + 1
    /\ \E in \in GenInputs(variant) :
          LET run == RunQuestions(variant, in, NoAnswers, 1)
          IN  /\ run.ok = TRUE
              /\ answers = run.answers
    /\ old = NoAnswers
    /\ yamlContent = <<>>
    /\ slugifiedTitle = <<>>
    /\ displayed = <<>>
    /\ accept = FALSE
    /\ rejects = 0
    /\ allDefault = FALSE
    /\ message = ""
    /\ files = {}
    /\ dirs = {}
    /\ editor = "none"

NextGen == Generate

SpecGen == InitGen /\ [][NextGen]_vars

----------------------------------------------------------------------------
(* slugify on its own: every title up to a length, slugged and slugged again *)

MaxTitleLen == 3

\* letters of both cases, a digit, white space, the replacement character, a
\* kept punctuation mark, a charmap entry and a removed character
SlugAlphabet == {"a", "B", "1", " ", "-", ".", "&", "#"}

SlugTitles == UNION {[1..n -> SlugAlphabet] : n \in 0..MaxTitleLen}

\* answers.title holds a title the user typed
InitSlug ==
    /\ variant \in Variants
    /\ pc = "slugify"
    /\ q = 1
    /\ \E t \in SlugTitles : answers = ("title" :> t)
    /\ old = NoAnswers
    /\ yamlContent = <<>>
    /\ slugifiedTitle = <<>>
    /\ displayed = <<>>
    /\ accept = FALSE
    /\ rejects = 0
    /\ allDefault = FALSE
    /\ message = ""
    /\ files = {}
    /\ dirs = {}
    /\ editor = "none"

\* const slugifiedTitle = slugify(answers.title, { lower: true })
SlugifyTitle ==
    /\ pc = "slugify"
    /\ slugifiedTitle' = slugify(answers["title"])
    /\ pc' = "slugified"
    /\ UNCHANGED <<variant, q, answers, old, yamlContent, displayed, accept,
                   rejects, allDefault, message, files, dirs, editor>>

\* the slug is handed back as a title
SlugAsTitle ==
    /\ pc = "slugified"
    /\ old = NoAnswers
    /\ old' = answers
    /\ answers' = ("title" :> slugifiedTitle)
    /\ pc' = "slugify"
    /\ UNCHANGED <<variant, q, yamlContent, slugifiedTitle, displayed, accept,
                   rejects, allDefault, message, files, dirs, editor>>

NextSlug == SlugifyTitle \/ SlugAsTitle

SpecSlug == InitSlug /\ [][NextSlug]_vars

----------------------------------------------------------------------------
(* Reading the assembled text *)

\* yamlContent is the text assembled from the current answers
Assembled == pc \in {"display", "confirm", "ensureDir", "write", "exec", "done"}

LinesWith(text, literal) == {i \in DOMAIN text : text[i][1] = literal}

HasLine(text, literal) == LinesWith(text, literal) # {}

\* what follows the literal on the first line that starts with it
LineValue(text, literal) ==
    Tail(text[CHOOSE i \in LinesWith(text, literal) :
                 \A j \in LinesWith(text, literal) : i <= j])

\* the text holds the three lines of an image block, one after the other
HasImageBlock(text) ==
    \E i \in DOMAIN text :
        /\ text[i] = <<"image:">>
        /\ i + 2 <= Len(text)
        /\ text[i + 1][1] = "  source: "
        /\ text[i + 2][1] = "  alt: "

Blank(s) == \A i \in DOMAIN s : s[i] \in WhiteSpace

\* the front-matter key of a flag, as the claim names it
FlagKey(name) ==
    CASE name = "pageHasCode" -> "pageHasCode: "
      [] name = "pageHasYoutube" -> "pageHasYoutube: "
      [] name = "pageHasVideo" -> "pageHasVideo: "
      [] name = "snow" -> "snow: "

----------------------------------------------------------------------------
(* C1 *)

\* C1: for each of the three flags, the text holds the line "<field name>: true"
\* exactly when the flag is true, and never a line giving the flag as false
FlagLineIffTrue ==
    Assembled =>
        \A name \in {"pageHasCode", VideoField(variant), "snow"} :
            /\ (\E i \in DOMAIN yamlContent : yamlContent[i] = <<FlagKey(name), "true">>)
                  <=> Truthy(answers, name)
            /\ \A i \in DOMAIN yamlContent : yamlContent[i] # <<FlagKey(name), "false">>

----------------------------------------------------------------------------
(* C2 *)

\* an image source is present: non-empty after trimming and, where hasImage is
\* asked, hasImage answered yes
ImageSourcePresent ==
    /\ Has(answers, "imageSource")
    /\ ~Blank(answers["imageSource"])
    /\ (variant = MultiType => answers["hasImage"])

\* C2 as stated: in every variant the text holds an image block exactly when an
\* image source is present
ImageBlockIffSourceEveryVariant ==
    Assembled => (HasImageBlock(yamlContent) <=> ImageSourcePresent)

\* C2 amended: outside the Basic variant the text holds an image block exactly
\* when an image source is present; the Basic variant always emits the block
ImageBlockIffSource ==
    Assembled =>
        IF variant = Basic THEN HasImageBlock(yamlContent)
        ELSE (HasImageBlock(yamlContent) <=> ImageSourcePresent)

\* a review variant assembled a text for a source of spaces only, with no block
BlankSourceNoBlock ==
    /\ Assembled
    /\ variant \in ReviewVariants
    /\ answers["imageSource"] = <<" ">>
    /\ ~HasLine(yamlContent, "image:")

----------------------------------------------------------------------------
(* C3 *)

CreditPersonGiven == Has(answers, "creditPerson") /\ ~Blank(answers["creditPerson"])

\* C3: the text holds a creditLink line exactly when creditPerson was answered
\* with more than white space; then it also holds the creditPerson line, and
\* the link on the creditLink line is one the URL pattern accepts
CreditLinkIffCreditPerson ==
    Assembled =>
        /\ HasLine(yamlContent, "  creditLink: ") <=> CreditPersonGiven
        /\ CreditPersonGiven =>
              /\ LineValue(yamlContent, "  creditPerson: ") = answers["creditPerson"]
              /\ UrlPattern(LineValue(yamlContent, "  creditLink: "))

\* the review loop of the credit variant assembled a text with a credit link
CreditLinkAfterReview ==
    /\ Assembled
    /\ variant = ReviewCredit
    /\ rejects > 0
    /\ HasLine(yamlContent, "  creditLink: ")

----------------------------------------------------------------------------
(* C4 *)

\* C4: in every variant, an image block with a non-empty source has a
\* non-empty alt
AltRequiredWithSource ==
    (Assembled /\ HasLine(yamlContent, "  source: ")
               /\ LineValue(yamlContent, "  source: ") # <<>>)
        => LineValue(yamlContent, "  alt: ") # <<>>

----------------------------------------------------------------------------
(* C5 *)

\* C5: no pass through the questions ends in a fault
PromptNeverAborts == ~(pc = "crashed" /\ q <= Len(Questions(variant)))

----------------------------------------------------------------------------
(* C6 *)

\* C6: when the user rejects the text and then takes the default of every
\* question, the answers and the text are the ones from before the rejection
RejectThenDefaultsIsIdentity ==
    (pc = "display" /\ rejects > 0 /\ allDefault)
        => (answers = old /\ yamlContent = displayed)

----------------------------------------------------------------------------
(* C7 *)

\* C7 as stated: in every variant a file is written only after its text was
\* displayed and accepted
WrittenOnlyAfterAcceptEveryVariant ==
    (pc \in {"write", "exec", "done"} \/ files # {})
        => (accept /\ \A f \in files : f.text = displayed)

\* C7 amended: in the variants with a review loop, the write is reached only
\* after an accept, and what is written is the text that was displayed
WrittenOnlyAfterAccept ==
    (variant \in ReviewVariants /\ (pc \in {"write", "done"} \/ files # {}))
        => (accept /\ \A f \in files : f.text = displayed)

\* a review variant wrote its file after the user had rejected a text
WrittenAfterReject ==
    /\ variant \in ReviewVariants
    /\ rejects > 0
    /\ files # {}

----------------------------------------------------------------------------
(* C8 *)

\* the directory the claim gives for each variant and entry type
ClaimedDir ==
    IF variant # MultiType THEN <<>>
    ELSE CASE answers["entryType"] = "Post" -> <<BASE_DIR, "posts", "/">>
           [] answers["entryType"] = "Note" -> <<BASE_DIR, "notes", "/">>
           [] answers["entryType"] = "TIL" -> <<BASE_DIR, "til", "/">>

WrittenIntoNewDir ==
    /\ variant = MultiType
    /\ files # {}
    /\ dirs = {ClaimedDir}

----------------------------------------------------------------------------
(* C9 *)

\* C9: in the multi-type variant the last two lines of the text are
\* "draft: true" and the closing delimiter
DraftLineIsLast ==
    (Assembled /\ variant = MultiType) =>
        /\ Len(yamlContent) >= 2
        /\ yamlContent[Len(yamlContent) - 1] = <<"draft: true">>
        /\ yamlContent[Len(yamlContent)] = <<"---">>
        /\ Cardinality(LinesWith(yamlContent, "draft: true")) = 1

\* a multi-type text with a flag, an image block and a credit
DraftAfterCredit ==
    /\ Assembled
    /\ variant = MultiType
    /\ HasLine(yamlContent, "snow: ")
    /\ HasLine(yamlContent, "  creditLink: ")

----------------------------------------------------------------------------
(* C10 *)

CommaPositions(s) == {k \in DOMAIN s : s[k] = ","}

\* the part of s between its (i-1)-th and its i-th comma
Piece(s, i) ==
    LET commas == CommaPositions(s)
        after == {k \in commas : Cardinality({c \in commas : c <= k}) = i - 1}
        upto == {k \in commas : Cardinality({c \in commas : c <= k}) = i}
        first == IF i = 1 THEN 1 ELSE (CHOOSE k \in after : TRUE) + 1
        last == IF upto = {} THEN Len(s) ELSE (CHOOSE k \in upto : TRUE) - 1
    IN  SubSeq(s, first, last)

\* t is s without the white space around it
IsTrimOf(t, s) ==
    \E lo \in 1..(Len(s) + 1) : \E hi \in 0..Len(s) :
        /\ t = SubSeq(s, lo, hi)
        /\ \A j \in 1..(lo - 1) : s[j] \in WhiteSpace
        /\ \A j \in (hi + 1)..Len(s) : s[j] \in WhiteSpace
        /\ (t # <<>> => (t[1] \notin WhiteSpace /\ t[Len(t)] \notin WhiteSpace))

\* the line that renders one element of the list
IsElementLine(line, piece, isLast) ==
    \E t \in {SubSeq(piece, lo, hi) : lo \in 1..(Len(piece) + 1), hi \in 0..Len(piece)} :
        /\ IsTrimOf(t, piece)
        /\ line = <<"  ", "\"">> \o JsonEscape(t) \o <<"\"">>
                  \o (IF isLast THEN <<>> ELSE <<",">>)

\* C10: the tags line is the fifth line of every text.  For an empty answer it
\* is "tags: []"; otherwise the list has one element for each piece between
\* the commas, in order, each piece without the white space around it
TagsLineRendersPieces ==
    Assembled =>
        LET tags == answers["tags"]
            n == Cardinality(CommaPositions(tags)) + 1
        IN  /\ LinesWith(yamlContent, "tags: ") = {5}
            /\ IF tags = <<>>
               THEN yamlContent[5] = <<"tags: ", "[]">>
               ELSE /\ yamlContent[5] = <<"tags: ", "[">>
                    /\ \A i \in 1..n :
                          IsElementLine(yamlContent[5 + i], Piece(tags, i), i = n)
                    /\ yamlContent[5 + n + 1] = <<"]">>

\* a text for a tags answer with a comma and white space around a piece
TagsWithSpacedPieces ==
    /\ Assembled
    /\ answers["tags"] = <<"x", ",", " ", "y">>
    /\ yamlContent[7] = <<"  ", "\"", "y", "\"">>

----------------------------------------------------------------------------
(* C11 *)

\* a slug has been computed from the title in answers
Slugged == pc = "slugified"

\* the hyphens of s are single and interior
HyphensSingleInterior(s) ==
    /\ s # <<>> => (s[1] # "-" /\ s[Len(s)] # "-")
    /\ \A i \in 1..(Len(s) - 1) : ~(s[i] = "-" /\ s[i + 1] = "-")

\* C11: slugify is idempotent, slugify(slugify(title)) = slugify(title), and
\* its result holds only lowercase letters, digits and single interior hyphens
SlugIsCleanAndIdempotent ==
    Slugged =>
        /\ AllIn(slugifiedTitle, Lowers \cup Digits \cup {"-"})
        /\ HyphensSingleInterior(slugifiedTitle)
        /\ old # NoAnswers => slugifiedTitle = answers["title"]

----------------------------------------------------------------------------
(* C12 *)

\* the place of line i of the text in the claimed order; 0 for a line the
\* order does not name.  The lines of the tags array share the place of the
\* tags line; the video flag's line is the one the variant writes for it.
OrderRank(v, text, i) ==
    LET k == text[i][1]
    IN  CASE i = 1 /\ text[i] = <<"---">> -> 1
          [] i > 1 /\ i = Len(text) /\ text[i] = <<"---">> -> 15
          [] k = "title: " -> 2
          [] k = "description: " -> 3
          [] k = "date: " -> 4
          [] k \in {"tags: ", "  ", "]"} -> 5
          [] k = "pageHasCode: " -> 6
          [] k = VideoLiteral(v) -> 7
          [] k = "snow: " -> 8
          [] k = "image:" -> 9
          [] k = "  source: " -> 10
          [] k = "  alt: " -> 11
          [] k = "  creditPerson: " -> 12
          [] k = "  creditLink: " -> 13
          [] k = "draft: true" -> 14
          [] OTHER -> 0

\* C12: in every variant the lines of the assembled text stand in one fixed
\* order: opening delimiter, title, description, date, tags, code flag, video
\* flag, snow flag, image block (source, alt, creditPerson, creditLink), the
\* draft line in the multi-type variant, closing delimiter; every line has a
\* place in the order, no line precedes a line of an earlier place, and only
\* the lines of the tags array share a place
LinesInFixedOrder ==
    Assembled =>
        /\ \A i \in DOMAIN yamlContent : OrderRank(variant, yamlContent, i) # 0
        /\ \A i, j \in DOMAIN yamlContent :
              i < j =>
                 LET ri == OrderRank(variant, yamlContent, i)
                     rj == OrderRank(variant, yamlContent, j)
                 IN  ri <= rj /\ (ri = rj => ri = 5)
        /\ \A r \in {1, 2, 3, 4, 5, 15} :
              \E i \in DOMAIN yamlContent : OrderRank(variant, yamlContent, i) = r
        /\ HasLine(yamlContent, "draft: true") => variant = MultiType

\* a text that holds every optional line: the three flags, the image block
\* with its credit, and the draft line
EveryOptionalLinePresent ==
    /\ Assembled
    /\ variant = MultiType
    /\ \A k \in {"pageHasCode: ", "pageHasYoutube: ", "snow: ", "image:",
                 "  source: ", "  alt: ", "  creditPerson: ", "  creditLink: ",
                 "draft: true"} : HasLine(yamlContent, k)
    /\ Len(tagsArray(answers)) > 1

----------------------------------------------------------------------------
(* C13 *)

\* the editor has been launched: its callback is pending or has run
EditorLaunched == pc = "exec" \/ editor # "none"

\* C13: in the multi-type variant the editor is launched only after the file
\* has been written; whether the launch succeeds or fails, the one file holds
\* the assembled text at the resolved path, a failure is logged, and the run
\* ends without a fault
EditorAfterWriteAndFailureLogged ==
    /\ EditorLaunched =>
          /\ variant = MultiType
          /\ yamlContent = generateYamlContent(variant, answers).yamlContent
          /\ files = {[path |-> ClaimedDir \o slugify(answers["title"]) \o <<".md">>,
                       text |-> yamlContent]}
    /\ editor # "none" => pc = "done"
    /\ editor = "failed" => message = "Failed to open file in VS Code"
    /\ editor = "opened" => message = ""

\* the launch failed after the file was written, and the run ended
EditorFailedAfterWrite ==
    /\ variant = MultiType
    /\ editor = "failed"
    /\ files # {}
    /\ pc = "done"

----------------------------------------------------------------------------
(* C14 *)

\* C14: in the variants with a review loop, whatever the number of rejections,
\* a finished run has written exactly one file; its text is the text last
\* displayed and accepted, which is the text assembled from the answers the
\* loop returned, and its name is the slug assembled from those same answers;
\* no run ever holds more than one file, and none before it has finished
WrittenIsLastDisplayedOfSameAnswers ==
    variant \in ReviewVariants =>
        /\ Cardinality(files) <= 1
        /\ files # {} => pc = "done"
        /\ pc = "done" =>
              LET result == generateYamlContent(variant, answers)
              IN  /\ accept
                  /\ displayed = result.yamlContent
                  /\ files = {[path |-> result.slugifiedTitle \o <<".md">>,
                               text |-> displayed]}

\* a review variant finished after a rejection in which the user changed the
\* tags, so that the text accepted is not the text first displayed
AcceptedAfterTagsEdit ==
    /\ variant \in ReviewVariants
    /\ pc = "done"
    /\ rejects > 0
    /\ old["tags"] # answers["tags"]
    /\ files # {}

====
